---- MODULE Spec2Model ----
(***************************************************************************)
(* The node modal of src/features/modals/NodeModal/index.tsx: the helper   *)
(* updateJsonAtPath, and the NodeModal component (isEditing, editedValues, *)
(* the initialising effect, handleEditChange, handleSave, handleCancel)    *)
(* against the graph store (selectedNode) and the file store (contents,    *)
(* format).                                                                *)
(*                                                                         *)
(* A document text is a sequence of lexemes; JSON.parse and JSON.stringify *)
(* are modelled on that sequence (a recursive-descent parser, a printer    *)
(* with the 2-space layout), so a text that is not JSON, a compact text    *)
(* and a pretty-printed text are three different texts.                    *)
(***************************************************************************)
EXTENDS Integers, Sequences, FiniteSets, TLC

----------------------------------------------------------------------------
(* JavaScript values.  A string is one of the short strings of the model;  *)
(* every string value of a document has length 0 or 1.                     *)

Undefined == [t |-> "undefined"]
Null      == [t |-> "null"]
Num(n)    == [t |-> "number", n |-> n]
Str(s)    == [t |-> "string", s |-> s]
\* An ordinary object: its own keys in property order, and their values.
Obj(ks, vs) == [t |-> "object", keys |-> ks, vals |-> vs]
\* An array: its elements, and its own non-index properties (pkeys, pvals).
ArrP(its, ks, vs) == [t |-> "array", items |-> its, pkeys |-> ks, pvals |-> vs]
Arr(its)  == ArrP(its, <<>>, <<>>)

\* typeof v
TypeOf(v) ==
  CASE v.t = "undefined" -> "undefined"
    [] v.t = "number"    -> "number"
    [] v.t = "string"    -> "string"
    [] OTHER             -> "object"

\* String(n) for the numbers of the model
NumStr(n) ==
  CASE n = 0 -> "0" [] n = 1 -> "1" [] n = 2 -> "2" [] n = 3 -> "3"
    [] n = 4 -> "4" [] n = 5 -> "5" [] n = 6 -> "6" [] n = 7 -> "7"
    [] n = 8 -> "8" [] OTHER -> "9"

\* Position of key k in the key sequence ks, or 0
KeyPos(ks, k) ==
  IF \E i \in 1..Len(ks) : ks[i] = k
  THEN CHOOSE i \in 1..Len(ks) : ks[i] = k
  ELSE 0

\* o[k] on the own properties (ks, vs)
PropGet(ks, vs, k) == IF KeyPos(ks, k) = 0 THEN Undefined ELSE vs[KeyPos(ks, k)]

\* o[k] = v on the own properties: an existing key keeps its place, a new
\* key is appended.
PropKeys(ks, k) == IF KeyPos(ks, k) = 0 THEN Append(ks, k) ELSE ks
PropVals(ks, vs, k, v) ==
  IF KeyPos(ks, k) = 0 THEN Append(vs, v) ELSE [vs EXCEPT ![KeyPos(ks, k)] = v]

----------------------------------------------------------------------------
(* Lexemes of a document text.                                             *)

P(s)    == [k |-> "punct", s |-> s]
TStr(s) == [k |-> "str", s |-> s]
TNum(n) == [k |-> "num", n |-> n]
TNull   == [k |-> "lit", s |-> "null"]
\* a bare word, as in a YAML document: no JSON lexeme
TWord(s) == [k |-> "word", s |-> s]
\* a line break followed by n spaces
NL(n)   == [k |-> "nl", n |-> n]
\* one space
SP      == [k |-> "sp", n |-> 1]

IsSpace(tok) == tok.k = "nl" \/ tok.k = "sp"

RECURSIVE Ser(_, _, _), SerItems(_, _, _, _), SerProps(_, _, _, _, _, _)

\* JSON.stringify(v, null, gap): gap = 2 is the pretty layout, gap = 0 the
\* compact one.  ind is the current indentation.
Ser(v, ind, gap) ==
  CASE v.t = "null"      -> <<TNull>>
    [] v.t = "undefined" -> <<TNull>>
    [] v.t = "number"    -> <<TNum(v.n)>>
    [] v.t = "string"    -> <<TStr(v.s)>>
    [] v.t = "array"     ->
         IF Len(v.items) = 0 THEN <<P("["), P("]")>>
         ELSE <<P("[")>> \o SerItems(v.items, 1, ind + gap, gap)
              \o (IF gap > 0 THEN <<NL(ind)>> ELSE <<>>) \o <<P("]")>>
    [] OTHER ->
         IF \A i \in 1..Len(v.keys) : v.vals[i].t = "undefined"
         THEN <<P("{"), P("}")>>
         ELSE <<P("{")>> \o SerProps(v.keys, v.vals, 1, TRUE, ind + gap, gap)
              \o (IF gap > 0 THEN <<NL(ind)>> ELSE <<>>) \o <<P("}")>>

\* the elements of an array from the i-th on; a non-index property of the
\* array is not an element and is not printed
SerItems(items, i, ind, gap) ==
  IF i > Len(items) THEN <<>>
  ELSE (IF i > 1 THEN <<P(",")>> ELSE <<>>)
       \o (IF gap > 0 THEN <<NL(ind)>> ELSE <<>>)
       \o Ser(items[i], ind, gap)
       \o SerItems(items, i + 1, ind, gap)

\* the properties of an object from the i-th on; a property whose value is
\* undefined is left out
SerProps(ks, vs, i, first, ind, gap) ==
  IF i > Len(ks) THEN <<>>
  ELSE IF vs[i].t = "undefined" THEN SerProps(ks, vs, i + 1, first, ind, gap)
  ELSE (IF first THEN <<>> ELSE <<P(",")>>)
       \o (IF gap > 0 THEN <<NL(ind)>> ELSE <<>>)
       \o <<TStr(ks[i]), P(":")>>
       \o (IF gap > 0 THEN <<SP>> ELSE <<>>)
       \o Ser(vs[i], ind, gap)
       \o SerProps(ks, vs, i + 1, FALSE, ind, gap)

\* JSON.stringify(v, null, 2)
Stringify(v) == Ser(v, 0, 2)

\* JSON.stringify(v)
StringifyCompact(v) == Ser(v, 0, 0)

NotSpace(tok) == ~IsSpace(tok)

Fail == [ok |-> FALSE, v |-> Undefined, i |-> 0]

RECURSIVE ParseValue(_, _), ParseElements(_, _, _, _), ParseMembers(_, _, _, _, _)

\* A JSON value starting at lexeme i of toks (white space removed):
\* [ok, v, i], i the position after the value.
ParseValue(toks, i) ==
  IF i > Len(toks) THEN Fail
  ELSE LET tok == toks[i] IN
    CASE tok.k = "num" -> [ok |-> TRUE, v |-> Num(tok.n), i |-> i + 1]
      [] tok.k = "str" -> [ok |-> TRUE, v |-> Str(tok.s), i |-> i + 1]
      [] tok.k = "lit" -> [ok |-> TRUE, v |-> Null, i |-> i + 1]
      [] tok = P("[")  -> ParseElements(toks, i + 1, <<>>, TRUE)
      [] tok = P("{")  -> ParseMembers(toks, i + 1, <<>>, <<>>, TRUE)
      [] OTHER         -> Fail

ParseElements(toks, i, items, first) ==
  IF i > Len(toks) THEN Fail
  ELSE IF first /\ toks[i] = P("]")
  THEN [ok |-> TRUE, v |-> Arr(items), i |-> i + 1]
  ELSE LET e == ParseValue(toks, i) IN
    IF ~e.ok \/ e.i > Len(toks) THEN Fail
    ELSE IF toks[e.i] = P(",")
    THEN ParseElements(toks, e.i + 1, Append(items, e.v), FALSE)
    ELSE IF toks[e.i] = P("]")
    THEN [ok |-> TRUE, v |-> Arr(Append(items, e.v)), i |-> e.i + 1]
    ELSE Fail

ParseMembers(toks, i, ks, vs, first) ==
  IF i > Len(toks) THEN Fail
  ELSE IF first /\ toks[i] = P("}")
  THEN [ok |-> TRUE, v |-> Obj(ks, vs), i |-> i + 1]
  ELSE IF toks[i].k # "str" \/ i + 1 > Len(toks) THEN Fail
  ELSE IF toks[i + 1] # P(":") THEN Fail
  ELSE LET key == toks[i].s
           e   == ParseValue(toks, i + 2) IN
    IF ~e.ok \/ e.i > Len(toks) THEN Fail
    ELSE LET ks2 == PropKeys(ks, key)
             vs2 == PropVals(ks, vs, key, e.v) IN
      IF toks[e.i] = P(",")
      THEN ParseMembers(toks, e.i + 1, ks2, vs2, FALSE)
      ELSE IF toks[e.i] = P("}")
      THEN [ok |-> TRUE, v |-> Obj(ks2, vs2), i |-> e.i + 1]
      ELSE Fail

\* JSON.parse(text): [ok, v]; ok = FALSE is the SyntaxError
Parse(text) ==
  LET toks == SelectSeq(text, NotSpace)
      r    == ParseValue(toks, 1) IN
  IF r.ok /\ r.i = Len(toks) + 1
  THEN [ok |-> TRUE, v |-> r.v]
  ELSE [ok |-> FALSE, v |-> Undefined]

----------------------------------------------------------------------------
(* A path segment is a string [s |-> ...] or a number [n |-> ...].          *)

SegS(s) == [s |-> s]
SegN(n) == [n |-> n]
IsNumSeg(seg) == DOMAIN seg = {"n"}

\* the property name a segment denotes
SegKey(seg) == IF IsNumSeg(seg) THEN NumStr(seg.n) ELSE seg.s

\* v[seg] for v neither null nor undefined
Index(v, seg) ==
  CASE v.t = "object" -> PropGet(v.keys, v.vals, SegKey(seg))
    [] v.t = "array"  ->
         IF IsNumSeg(seg)
         THEN (IF seg.n + 1 \in 1..Len(v.items) THEN v.items[seg.n + 1] ELSE Undefined)
         ELSE PropGet(v.pkeys, v.pvals, seg.s)
    [] v.t = "string" ->
         \* a string of length 1 at index 0 is itself
         IF IsNumSeg(seg) /\ seg.n = 0 /\ v.s # "" THEN Str(v.s) ELSE Undefined
    [] OTHER -> Undefined

\* for (i ...) current = current[path[i]]: [threw, v]; indexing null or
\* undefined is the TypeError
RECURSIVE Walk(_, _)
Walk(v, path) ==
  IF Len(path) = 0 THEN [threw |-> FALSE, v |-> v]
  ELSE IF v.t = "null" \/ v.t = "undefined" THEN [threw |-> TRUE, v |-> Undefined]
  ELSE Walk(Index(v, Head(path)), Tail(path))

----------------------------------------------------------------------------
(* A Record<string, string>: keys in property order, vals their strings.   *)

EmptyRec == [keys |-> <<>>, vals |-> <<>>]
RecHas(r, k) == KeyPos(r.keys, k) # 0
RecGet(r, k) == r.vals[KeyPos(r.keys, k)]
\* {...r, [k]: v}
RecPut(r, k, v) == [keys |-> PropKeys(r.keys, k), vals |-> PropVals(r.keys, r.vals, k, v)]
RecKeys(r) == {r.keys[i] : i \in 1..Len(r.keys)}

\* current[key] = value on an object or an array; no key of the model is an
\* array index, so on an array the assignment makes a non-index property
SetProp(cur, k, v) ==
  IF cur.t = "array"
  THEN ArrP(cur.items, PropKeys(cur.pkeys, k), PropVals(cur.pkeys, cur.pvals, k, v))
  ELSE Obj(PropKeys(cur.keys, k), PropVals(cur.keys, cur.vals, k, v))

\* Object.entries(newValues).forEach(([key, value]) => current[key] = value)
RECURSIVE AssignEntries(_, _, _)
AssignEntries(cur, newValues, i) ==
  IF i > Len(newValues.keys) THEN cur
  ELSE AssignEntries(SetProp(cur, newValues.keys[i], Str(newValues.vals[i])),
                     newValues, i + 1)

\* ReplaceAt when current is a copy of the container and not a reference
\* into obj: the assignments are not seen from obj.
ReplaceAtCopy(v, path, c) == v

\* The root after the container reached by path has become c: current is a
\* reference into obj, so the assignments to it are seen from obj.
RECURSIVE ReplaceAt(_, _, _)
ReplaceAt(v, path, c) ==
  IF Len(path) = 0 THEN c
  ELSE LET seg == Head(path)
           sub == ReplaceAt(Index(v, seg), Tail(path), c) IN
    IF v.t = "array"
    THEN ArrP([v.items EXCEPT ![seg.n + 1] = sub], v.pkeys, v.pvals)
    ELSE Obj(v.keys, [v.vals EXCEPT ![KeyPos(v.keys, SegKey(seg))] = sub])

\* The try block of updateJsonAtPath: [threw, text], threw when JSON.parse
\* or the walk raised.
updateJsonAtPathTry(json, path, newValues) ==
  LET parsed == Parse(json) IN
  IF ~parsed.ok THEN [threw |-> TRUE, text |-> <<>>]
  ELSE LET w == Walk(parsed.v, path) IN
    IF w.threw THEN [threw |-> TRUE, text |-> <<>>]
    ELSE IF TypeOf(w.v) = "object" /\ w.v.t # "null"
    THEN [threw |-> FALSE,
          text  |-> Stringify(ReplaceAt(parsed.v, path, AssignEntries(w.v, newValues, 1)))]
    ELSE [threw |-> FALSE, text |-> Stringify(parsed.v)]

\* updateJsonAtPath without its try/catch: what JSON.parse or the walk raises
\* reaches the caller.
updateJsonAtPathNoCatch(json, path, newValues) ==
  updateJsonAtPathTry(json, path, newValues)

\* updateJsonAtPath with the try/catch around JSON.parse alone: what the walk
\* raises reaches the caller.
updateJsonAtPathCatchParse(json, path, newValues) ==
  IF ~Parse(json).ok THEN [threw |-> FALSE, text |-> json]
  ELSE updateJsonAtPathTry(json, path, newValues)

\* updateJsonAtPath(json, path, newValues): [threw, text]; threw says that
\* an exception reached the caller.
updateJsonAtPath(json, path, newValues) ==
  LET r == updateJsonAtPathTry(json, path, newValues) IN
  IF r.threw THEN [threw |-> FALSE, text |-> json] ELSE r

----------------------------------------------------------------------------
(* Rows and nodes (NodeData).                                              *)

\* a row with a key, and a row whose key is undefined
Row(key, value, type) == [hasKey |-> TRUE, key |-> key, value |-> value, type |-> type]
KeylessRow(value, type) == [hasKey |-> FALSE, key |-> "", value |-> value, type |-> type]

\* row.type !== "array" && row.type !== "object"
IsScalarRow(row) == row.type # "array" /\ row.type # "object"

\* row.key as a condition: a key that is undefined or "" is falsy
KeyTruthy(row) == row.hasKey /\ row.key # ""

\* `value-${index}`
SyntheticKey(index) ==
  CASE index = 0 -> "value-0" [] index = 1 -> "value-1" [] index = 2 -> "value-2"
    [] OTHER -> "value-3"

\* row.key ?? `value-${index}`
InputKey(row, index) == IF row.hasKey THEN row.key ELSE SyntheticKey(index)

\* String(row.value ?? "")
ValueText(v) ==
  CASE v.t = "undefined" -> ""
    [] v.t = "null"      -> ""
    [] v.t = "number"    -> NumStr(v.n)
    [] OTHER             -> v.s

\* A node: id stands for the attributes other than text and path; hasText
\* and hasPath are FALSE when the attribute is undefined.
Node(id, rows, path) ==
  [id |-> id, hasText |-> TRUE, text |-> rows, hasPath |-> TRUE, path |-> path]
NoNode == [id |-> "null"]

\* nodeData.path ?? []
PathOf(node) == IF node.hasPath THEN node.path ELSE <<>>

\* nodeData.text?.filter(row => scalar) ?? []
editableRows(node) == IF node.hasText THEN SelectSeq(node.text, IsScalarRow) ELSE <<>>

\* The body of the effect: initialValues
RECURSIVE InitialValuesFrom(_, _, _)
InitialValuesFrom(rows, i, acc) ==
  IF i > Len(rows) THEN acc
  ELSE IF IsScalarRow(rows[i]) /\ KeyTruthy(rows[i])
  THEN InitialValuesFrom(rows, i + 1, RecPut(acc, rows[i].key, ValueText(rows[i].value)))
  ELSE InitialValuesFrom(rows, i + 1, acc)

\* the effect merging into the previous mapping:
\* setEditedValues(prev => ({...prev, ...initialValues}))
effectValuesMerge(prev, node) ==
  IF node.hasText THEN InitialValuesFrom(node.text, 1, prev) ELSE prev

\* what the effect hands to setEditedValues, given the previous mapping
effectValues(prev, node) ==
  IF node.hasText THEN InitialValuesFrom(node.text, 1, EmptyRec) ELSE EmptyRec

\* handleEditChange: prev => ({...prev, [key]: value})
handleEditChange(prev, key, value) == RecPut(prev, key, value)

\* nodeData.text.map(row => ...) of handleSave
updatedText(rows, edited) ==
  [i \in 1..Len(rows) |->
     IF IsScalarRow(rows[i]) /\ KeyTruthy(rows[i]) /\ RecHas(edited, rows[i].key)
     THEN [rows[i] EXCEPT !.value = Str(RecGet(edited, rows[i].key))]
     ELSE rows[i]]

----------------------------------------------------------------------------
(* The stores.  A call is logged with its argument or its result.          *)

Call(op, arg) == [op |-> op, arg |-> arg]

\* useFile.setContents({contents, hasChanges, skipUpdate, format})
setContents(file, arg) ==
  [contents |-> arg.contents, format |-> arg.format, hasChanges |-> arg.hasChanges]

\* The outcome of one run of handleSave on (node, edited, file); failAt names
\* the store call that raises, or is "none".
\*   outcome: "returned" (the early return), "saved", "caught" (the catch
\*   block ran) or "escaped" (an exception left the handler).
SaveResult(outcome, calls, file, node, editing) ==
  [outcome |-> outcome, calls |-> calls, file |-> file, node |-> node, isEditing |-> editing]

\* the calls of a Save that replaces the selected node before it writes the
\* document
saveCallsNodeFirst(file, arg, updatedNode) ==
  << Call("getContents", file.contents), Call("getFormat", file.format),
     Call("setSelectedNode", updatedNode), Call("setContents", arg),
     Call("setIsEditing", FALSE) >>

\* the calls of a Save that completes, in the order the handler makes them
saveCalls(file, arg, updatedNode) ==
  << Call("getContents", file.contents), Call("getFormat", file.format),
     Call("setContents", arg), Call("setSelectedNode", updatedNode),
     Call("setIsEditing", FALSE) >>

\* the try block ending before setSelectedNode: what setSelectedNode raises
\* leaves the handler, after the document was written
saveTryShort(node, updatedNode, file, failAt, threw, arg) ==
  IF failAt = "setSelectedNode"
  THEN [outcome |-> "escaped", calls |-> <<>>, file |-> setContents(file, arg),
        node |-> node, isEditing |-> TRUE]
  ELSE [outcome |-> IF failAt = "none" /\ ~threw THEN "saved" ELSE "caught",
        calls |-> <<>>, file |-> file, node |-> node,
        isEditing |-> ~(failAt = "none" /\ ~threw)]

\* the try block from getContents() on, and the catch.  threw
\* says that updateJsonAtPath raised; arg is the argument of setContents.
saveTry(node, updatedNode, file, failAt, threw, arg) ==
  IF failAt = "getContents"
  THEN SaveResult("caught", <<>>, file, node, TRUE)
  ELSE IF failAt = "getFormat" \/ threw \/ failAt = "setContents"
  THEN SaveResult("caught",
                  SubSeq(saveCalls(file, arg, updatedNode), 1,
                         IF failAt = "getFormat" THEN 1 ELSE 2),
                  file, node, TRUE)
  ELSE IF failAt = "setSelectedNode"
  THEN SaveResult("caught", SubSeq(saveCalls(file, arg, updatedNode), 1, 3),
                  setContents(file, arg), node, TRUE)
  ELSE SaveResult("saved", saveCalls(file, arg, updatedNode),
                  setContents(file, arg), updatedNode, FALSE)

\* the argument of setContents, from the result of updateJsonAtPath
saveArg(file, updatedJson) ==
  [contents |-> updatedJson.text, hasChanges |-> TRUE,
   skipUpdate |-> FALSE, format |-> file.format]

savePatched(node, updatedNode, file, failAt, updatedJson) ==
  saveTry(node, updatedNode, file, failAt, updatedJson.threw, saveArg(file, updatedJson))

handleSave(node, edited, file, failAt) ==
  IF node = NoNode THEN SaveResult("returned", <<>>, file, node, TRUE)
  ELSE IF ~node.hasText THEN SaveResult("caught", <<>>, file, node, TRUE)
  ELSE savePatched(node, [node EXCEPT !.text = updatedText(node.text, edited)],
                   file, failAt,
                   updateJsonAtPath(file.contents, PathOf(node), edited))

\* handleCancel without setEditedValues({})
handleCancelKeep(node, edited, file) ==
  [isEditing |-> FALSE, editedValues |-> edited, file |-> file, node |-> node,
   calls |-> <<Call("setIsEditing", FALSE)>>]

\* handleCancel, run on (node, edited, file): what it leaves
handleCancel(node, edited, file) ==
  [isEditing |-> FALSE, editedValues |-> EmptyRec, file |-> file, node |-> node,
   calls |-> <<Call("setIsEditing", FALSE), Call("setEditedValues", EmptyRec)>>]

----------------------------------------------------------------------------
(* The documents, nodes and inputs of the model.                           *)

\* {"a":1,"b":"x"}
DocFlat == Obj(<<"a", "b">>, <<Num(1), Str("x")>>)
\* {"a":{"a":1,"b":null},"b":[1,{"a":"x"}],"c":null}
DocNested ==
  Obj(<<"a", "b", "c">>,
      <<Obj(<<"a", "b">>, <<Num(1), Null>>),
        Arr(<<Num(1), Obj(<<"a">>, <<Str("x")>>)>>),
        Null>>)
\* [1,"x"]
DocArray == Arr(<<Num(1), Str("x")>>)
\* {"":1}
DocEmptyKey == Obj(<<"">>, <<Num(1)>>)
\* DocFlat as a YAML document:  a: 1 / b: x
TextYaml ==
  <<TWord("a"), P(":"), SP, TNum(1), NL(0), TWord("b"), P(":"), SP, TWord("x")>>
\* the cut-off JSON text  {"a":1
TextCut == <<P("{"), TStr("a"), P(":"), TNum(1)>>

\* the file store holding a text in a format, unchanged so far
FileOf(text, format) == [contents |-> text, format |-> format, hasChanges |-> FALSE]

\* the root of DocFlat
NodeFlat == Node("flat", <<Row("a", Num(1), "number"), Row("b", Str("x"), "string")>>, <<>>)
\* the root of DocFlat, the row of b without its key
NodeMixed == Node("mixed", <<Row("a", Num(1), "number"), KeylessRow(Str("x"), "string")>>, <<>>)
\* the root of DocNested
NodeOuter ==
  Node("outer", <<Row("a", Undefined, "object"), Row("b", Undefined, "array"),
                  Row("c", Null, "null")>>, <<>>)
\* DocNested.a
NodeInner ==
  Node("inner", <<Row("a", Num(1), "number"), Row("b", Null, "null")>>, <<SegS("a")>>)
\* DocNested.b[0], a primitive: one row without a key
NodePrim == Node("prim", <<KeylessRow(Num(1), "number")>>, <<SegS("b"), SegN(0)>>)
\* the root of DocArray: no rows
NodeList == Node("list", <<>>, <<>>)
\* a node whose text and path are undefined
NodeBare == [id |-> "bare", hasText |-> FALSE, text |-> <<>>, hasPath |-> FALSE, path |-> <<>>]
\* the root of DocEmptyKey: a row whose key is the empty string; the path is
\* undefined
NodeEmptyKey ==
  [id |-> "emptykey", hasText |-> TRUE, text |-> <<Row("", Num(1), "number")>>,
   hasPath |-> FALSE, path |-> <<>>]

\* The stores when the modal is mounted: the document of the file store and
\* the nodes of the graph made from it.
Mounts ==
  { [file |-> FileOf(StringifyCompact(DocFlat), "json"),     nodes |-> {NodeFlat}],
    [file |-> FileOf(TextYaml, "yaml"),                      nodes |-> {NodeFlat}],
    [file |-> FileOf(StringifyCompact(DocFlat), "json"),     nodes |-> {NodeMixed, NodeBare}],
    [file |-> FileOf(StringifyCompact(DocNested), "json"),   nodes |-> {NodeOuter, NodeInner, NodePrim}],
    [file |-> FileOf(StringifyCompact(DocArray), "json"),    nodes |-> {NodeList}],
    [file |-> FileOf(StringifyCompact(DocEmptyKey), "json"), nodes |-> {NodeEmptyKey}] }

\* what the user can type into an input
EditVals == {"", "2"}

\* the store call that raises during a Save
FailAts == {"none", "getContents", "getFormat", "setContents", "setSelectedNode"}

\* the Save clicks and the selection changes of a run
MaxSaves == 2
MaxSelects == 1

\* inputs of updateJsonAtPath on its own
MaxPathLen == 2
Segs == {SegS("a"), SegS("b"), SegS("c"), SegN(0), SegN(1), SegN(2)}
RECURSIVE PathsUpTo(_)
PathsUpTo(n) ==
  IF n = 0 THEN {<<>>}
  ELSE PathsUpTo(n - 1)
       \union {Append(p, seg) : p \in {q \in PathsUpTo(n - 1) : Len(q) = n - 1}, seg \in Segs}
Paths == PathsUpTo(MaxPathLen)
Texts ==
  { StringifyCompact(DocFlat), StringifyCompact(DocNested), Stringify(DocNested),
    StringifyCompact(DocArray), StringifyCompact(Num(1)), StringifyCompact(Null),
    TextYaml, TextCut, <<>>, <<P("["), TNum(1), P(","), P("]")>> }
NewValues ==
  { EmptyRec,
    [keys |-> <<"a">>, vals |-> <<"2">>],
    [keys |-> <<"b", "d">>, vals |-> <<"", "2">>],
    [keys |-> <<"value-0">>, vals |-> <<"2">>] }
NoCall == [json |-> <<>>, path |-> <<>>, newValues |-> EmptyRec]
NoReturn == [threw |-> FALSE, text |-> <<>>]

----------------------------------------------------------------------------
VARIABLES
  isEditing,      \* useState(false)
  editedValues,   \* useState({})
  selectedNode,   \* useGraph: selectedNode
  graphNodes,     \* useGraph: the nodes that can be selected
  file,           \* useFile: contents, format, hasChanges
  effectPending,  \* the effect's dependencies changed; it has not run yet
  lastOp,         \* the handler that ran last
  outcome,        \* how it ended
  fault,          \* the store call that raised in it, or "none"
  calls,          \* the store calls and state setters it made, in order
  typed,          \* the user typed into an input during the edit session
  nSaves,         \* the Save clicks so far
  nSelects,       \* the selection changes so far
  uIn, uOut, uDone  \* a call of updateJsonAtPath on its own, and its result

vars == <<isEditing, editedValues, selectedNode, graphNodes, file, effectPending, lastOp,
          outcome, fault, calls, typed, nSaves, nSelects, uIn, uOut, uDone>>

compVars == <<isEditing, editedValues, selectedNode, graphNodes, file, effectPending, lastOp,
              outcome, fault, calls, typed, nSaves, nSelects>>
callVars == <<uIn, uOut, uDone>>

Mounted ==
  /\ isEditing = FALSE
  /\ editedValues = EmptyRec
  /\ effectPending = FALSE
  /\ lastOp = "mount"
  /\ outcome = "returned"
  /\ fault = "none"
  /\ calls = <<>>
  /\ typed = FALSE
  /\ nSaves = 0 /\ nSelects = 0

Init ==
  /\ Mounted
  /\ \E m \in Mounts :
       /\ file = m.file
       /\ graphNodes = m.nodes
       /\ selectedNode \in m.nodes \union {NoNode}
  /\ uIn = NoCall /\ uOut = NoReturn /\ uDone = FALSE

\* the component renders its buttons and inputs: nodeData is set, and the
\* effect of the last render has run
Rendered == selectedNode # NoNode /\ ~effectPending

\* onClick of the Edit button: setIsEditing(true)
Edit ==
  /\ Rendered /\ ~isEditing
  /\ Len(editableRows(selectedNode)) # 0
  /\ isEditing' = TRUE
  /\ effectPending' = TRUE
  /\ lastOp' = "edit" /\ outcome' = "returned" /\ fault' = "none"
  /\ calls' = <<Call("setIsEditing", TRUE)>>
  /\ typed' = FALSE
  /\ UNCHANGED <<editedValues, selectedNode, file, nSaves, nSelects, graphNodes, callVars>>

\* the effect with dependencies [isEditing, nodeData]
RunEffect ==
  /\ effectPending
  /\ effectPending' = FALSE
  /\ lastOp' = "effect" /\ outcome' = "returned" /\ fault' = "none"
  /\ IF selectedNode # NoNode /\ isEditing
     THEN /\ editedValues' = effectValues(editedValues, selectedNode)
          /\ calls' = <<Call("setEditedValues", editedValues')>>
     ELSE /\ editedValues' = editedValues
          /\ calls' = <<>>
  /\ UNCHANGED <<isEditing, selectedNode, file, typed, nSaves, nSelects, graphNodes, callVars>>

\* onChange of the input of the index-th editable row
Change ==
  /\ Rendered /\ isEditing
  /\ \E i \in 1..Len(editableRows(selectedNode)), value \in EditVals :
       /\ editedValues' =
            handleEditChange(editedValues,
                             InputKey(editableRows(selectedNode)[i], i - 1), value)
       /\ calls' = <<Call("setEditedValues", editedValues')>>
  /\ lastOp' = "change" /\ outcome' = "returned" /\ fault' = "none"
  /\ typed' = TRUE
  /\ UNCHANGED <<isEditing, selectedNode, file, effectPending, nSaves, nSelects, graphNodes, callVars>>

\* onClick of the Save button; failAt is the store call that raises
Save ==
  /\ Rendered /\ isEditing
  /\ nSaves < MaxSaves
  /\ \E failAt \in FailAts :
     \E r \in {handleSave(selectedNode, editedValues, file, failAt)} :
       /\ isEditing' = r.isEditing
       /\ selectedNode' = r.node
       /\ file' = r.file
       /\ outcome' = r.outcome
       /\ calls' = r.calls
       /\ effectPending' = (r.isEditing # isEditing \/ r.node # selectedNode)
       /\ fault' = failAt
  /\ lastOp' = "save"
  /\ nSaves' = nSaves + 1
  /\ UNCHANGED <<editedValues, typed, nSelects, graphNodes, callVars>>

\* onClick of the Cancel button
Cancel ==
  /\ Rendered /\ isEditing
  /\ \E r \in {handleCancel(selectedNode, editedValues, file)} :
       /\ isEditing' = r.isEditing
       /\ editedValues' = r.editedValues
       /\ selectedNode' = r.node
       /\ file' = r.file
       /\ calls' = r.calls
       /\ effectPending' = (r.isEditing # isEditing \/ r.node # selectedNode)
  /\ lastOp' = "cancel" /\ outcome' = "returned" /\ fault' = "none"
  /\ UNCHANGED <<typed, nSaves, nSelects, graphNodes, callVars>>

\* the graph store's selection changes from outside the modal
SelectNode ==
  /\ ~effectPending
  /\ nSelects < MaxSelects
  /\ nSelects' = nSelects + 1
  /\ \E n \in graphNodes \union {NoNode} :
       /\ n # selectedNode
       /\ selectedNode' = n
  /\ effectPending' = TRUE
  /\ lastOp' = "select" /\ outcome' = "returned" /\ fault' = "none"
  /\ calls' = <<>>
  /\ UNCHANGED <<isEditing, editedValues, file, typed, nSaves, graphNodes, callVars>>

Next == Edit \/ RunEffect \/ Change \/ Save \/ Cancel \/ SelectNode

Spec == Init /\ [][Next]_vars

----------------------------------------------------------------------------
(* updateJsonAtPath on its own: every text, path and mapping of the model. *)

InitUpdate ==
  /\ Mounted
  /\ selectedNode = NoNode /\ graphNodes = {}
  /\ file = FileOf(<<>>, "json")
  /\ uIn \in [json : Texts, path : Paths, newValues : NewValues]
  /\ uOut = NoReturn /\ uDone = FALSE

CallUpdate ==
  /\ ~uDone
  /\ uOut' = updateJsonAtPath(uIn.json, uIn.path, uIn.newValues)
  /\ uDone' = TRUE
  /\ UNCHANGED <<uIn, compVars>>

NextUpdate == CallUpdate

SpecUpdate == InitUpdate /\ [][NextUpdate]_vars

----------------------------------------------------------------------------
(* The component: Cancel, Save, the edit session.                          *)

StoreOps == {"getContents", "getFormat", "setContents", "setSelectedNode"}

\* C1: Cancel is a local transition.  From Editing, whatever the node, the
\* document and the edited values, a Cancel ends in Viewing with the edited
\* values reset to the empty mapping, leaves the file store and the selected
\* node as they were, and calls neither setContents nor setSelectedNode.
C1_CancelIsLocal ==
  [][ (isEditing /\ lastOp' = "cancel") =>
        /\ ~isEditing'
        /\ editedValues' = EmptyRec
        /\ file' = file
        /\ selectedNode' = selectedNode
        /\ \A i \in 1..Len(calls') : calls'[i].op \notin StoreOps ]_vars

\* a Cancel that discarded what the user had typed
C1_Witness ==
  /\ lastOp = "cancel" /\ typed /\ ~isEditing
  /\ editedValues = EmptyRec
  /\ selectedNode = NodeFlat

\* C2: a Save that completes reads contents and format, writes the file store
\* once with contents = updateJsonAtPath(contents read, node path, edited
\* values), hasChanges = true, skipUpdate = false and the format read, then
\* replaces the selected node by the updated node (the rows with an edited
\* value replaced, the other rows and attributes as they were), then leaves
\* Editing: each call once, in this order.
C2_SaveOrder ==
  [][ (isEditing /\ lastOp' = "save" /\ outcome' = "saved") =>
        /\ calls' =
             << Call("getContents", file.contents),
                Call("getFormat", file.format),
                Call("setContents",
                     [contents |-> updateJsonAtPath(file.contents, PathOf(selectedNode),
                                                    editedValues).text,
                      hasChanges |-> TRUE, skipUpdate |-> FALSE,
                      format |-> file.format]),
                Call("setSelectedNode", selectedNode'),
                Call("setIsEditing", FALSE) >>
        /\ file' = [contents |-> calls'[3].arg.contents, format |-> file.format,
                    hasChanges |-> TRUE]
        /\ selectedNode'.id = selectedNode.id
        /\ PathOf(selectedNode') = PathOf(selectedNode)
        /\ Len(selectedNode'.text) = Len(selectedNode.text)
        /\ \A i \in 1..Len(selectedNode.text) :
             selectedNode'.text[i] =
               IF /\ selectedNode.text[i].type \notin {"array", "object"}
                  /\ selectedNode.text[i].hasKey
                  /\ selectedNode.text[i].key \in RecKeys(editedValues) \ {""}
               THEN [selectedNode.text[i] EXCEPT
                       !.value = Str(RecGet(editedValues, selectedNode.text[i].key))]
               ELSE selectedNode.text[i]
        /\ ~isEditing' ]_vars

\* a completed Save that changed the document and the node
C2_Witness ==
  /\ lastOp = "save" /\ outcome = "saved" /\ typed
  /\ selectedNode.id = "inner"
  /\ file.hasChanges
  /\ file.contents # StringifyCompact(DocNested)
  /\ Parse(file.contents).ok
  /\ Parse(file.contents).v # DocNested

\* a step of Save in which something raised: a store call, or the row
\* reconciliation (nodeData.text is undefined)
SaveFailed == fault' # "none" \/ ~selectedNode.hasText

\* C3: when a step of Save raises, it is caught inside Save: no exception
\* leaves the handler, the component stays in Editing and the edited values
\* are kept; Save leaves Editing only when no step raised.
C3_SaveFailureCaught ==
  [][ (isEditing /\ lastOp' = "save") =>
        /\ outcome' # "escaped"
        /\ SaveFailed => (isEditing' /\ editedValues' = editedValues)
        /\ ~isEditing' => ~SaveFailed ]_vars

\* setSelectedNode raised after the document was written: still Editing, the
\* typed values kept
C3_Witness ==
  /\ lastOp = "save" /\ fault = "setSelectedNode" /\ outcome = "caught"
  /\ isEditing /\ typed
  /\ file.hasChanges
  /\ editedValues # EmptyRec

\* the rows of a node
RowsOf(node) == IF node.hasText THEN node.text ELSE <<>>

\* a row that the session can edit under its key: neither array nor object,
\* and a key that is present (as the code tests it: not undefined, not "")
IsKeyedScalar(row) == IsScalarRow(row) /\ row.hasKey /\ row.key # ""

\* m is the mapping key -> text of value over the keyed scalar rows of node
IsProjection(m, node) ==
  /\ Cardinality(RecKeys(m)) = Len(m.keys)
  /\ \A k \in RecKeys(m) :
       \E i \in 1..Len(RowsOf(node)) :
         IsKeyedScalar(RowsOf(node)[i]) /\ RowsOf(node)[i].key = k
  /\ \A i \in 1..Len(RowsOf(node)) :
       IsKeyedScalar(RowsOf(node)[i]) =>
         /\ RecHas(m, RowsOf(node)[i].key)
         /\ RecGet(m, RowsOf(node)[i].key) = ValueText(RowsOf(node)[i].value)

C8_EmptyInViewing == ~isEditing => editedValues = EmptyRec

\* the value under key k of the container at path in the document text; the
\* document must parse and the path must lead to an object
HoldsAt(text, path, k, v) ==
  /\ Parse(text).ok
  /\ ~Walk(Parse(text).v, path).threw
  /\ Walk(Parse(text).v, path).v.t = "object"
  /\ Index(Walk(Parse(text).v, path).v, SegS(k)) = v

\* C9 as stated: after a Save that completes, for any document and node path,
\* every keyed scalar row of the new selected node has its value under its
\* key in the container at the node's path of the document written.
C9_NodeAgreesWithDocument ==
  (lastOp = "save" /\ outcome = "saved") =>
    \A i \in 1..Len(RowsOf(selectedNode)) :
      IsKeyedScalar(RowsOf(selectedNode)[i]) =>
        HoldsAt(file.contents, PathOf(selectedNode),
                RowsOf(selectedNode)[i].key, RowsOf(selectedNode)[i].value)

\* the keys of the container at path in the document text
TargetKeys(text, path) ==
  IF Parse(text).ok /\ ~Walk(Parse(text).v, path).threw
     /\ Walk(Parse(text).v, path).v.t = "object"
  THEN {Walk(Parse(text).v, path).v.keys[i] :
          i \in 1..Len(Walk(Parse(text).v, path).v.keys)}
  ELSE {}

\* C10 as stated: every key of the edited values handed to updateJsonAtPath
\* by a Save is the key of a row of the node that is neither array nor
\* object, so the Save leaves the key set of the target container as it was.
C10_OnlyRowKeysWritten ==
  (lastOp = "save" /\ outcome = "saved") =>
    /\ \A k \in RecKeys(editedValues) :
         \E i \in 1..Len(RowsOf(selectedNode)) :
           /\ IsScalarRow(RowsOf(selectedNode)[i])
           /\ RowsOf(selectedNode)[i].hasKey
           /\ RowsOf(selectedNode)[i].key = k
    /\ TargetKeys(file.contents, PathOf(selectedNode))
         = TargetKeys(calls[1].arg, PathOf(selectedNode))

----------------------------------------------------------------------------
(* updateJsonAtPath.                                                       *)

\* the parsed input document, the container its path leads to, and the
\* parsed result
InDoc    == Parse(uIn.json)
InTarget == Walk(InDoc.v, uIn.path)
OutDoc   == Parse(uOut.text)
OutTarget == Walk(OutDoc.v, uIn.path)

\* the path leads to a value of the document without indexing null or
\* undefined on the way
Resolves == InDoc.ok /\ ~InTarget.threw

\* p is a prefix of q
IsPrefix(p, q) == Len(p) <= Len(q) /\ SubSeq(q, 1, Len(p)) = p

\* the own keys of an object, the indices of an array
Shape(v) ==
  CASE v.t = "object" -> [t |-> "object", keys |-> v.keys, n |-> 0]
    [] v.t = "array"  -> [t |-> "array", keys |-> <<>>, n |-> Len(v.items)]
    [] OTHER          -> [t |-> v.t, keys |-> <<>>, n |-> 0]

\* the result and the input agree everywhere outside the container at the
\* path: every value not inside it is the same, and every container around
\* it has the same keys or length
SameOutside ==
  \A r \in Paths :
    IsPrefix(uIn.path, r) \/
      IF IsPrefix(r, uIn.path)
      THEN /\ ~Walk(OutDoc.v, r).threw
           /\ Shape(Walk(OutDoc.v, r).v) = Shape(Walk(InDoc.v, r).v)
      ELSE Walk(OutDoc.v, r) = Walk(InDoc.v, r)

\* the target container of the result holds the new values as strings, and
\* its other keys as before
TargetUpdated ==
  /\ ~uOut.threw /\ OutDoc.ok /\ ~OutTarget.threw
  /\ \A k \in RecKeys(uIn.newValues) :
       Index(OutTarget.v, SegS(k)) = Str(RecGet(uIn.newValues, k))
  /\ OutTarget.v.t = InTarget.v.t
  /\ InTarget.v.t = "object" =>
       /\ \A i \in 1..Len(InTarget.v.keys) :
            InTarget.v.keys[i] \notin RecKeys(uIn.newValues) =>
              Index(OutTarget.v, SegS(InTarget.v.keys[i])) = InTarget.v.vals[i]
       /\ \A i \in 1..Len(OutTarget.v.keys) :
            \/ OutTarget.v.keys[i] \in RecKeys(uIn.newValues)
            \/ KeyPos(InTarget.v.keys, OutTarget.v.keys[i]) # 0
  /\ InTarget.v.t = "array" => OutTarget.v.items = InTarget.v.items
  /\ SameOutside

\* the result is a document with the content of the input
SameContent == ~uOut.threw /\ OutDoc.ok /\ OutDoc.v = InDoc.v

\* C4 as stated: when the path leads to an object or an array, the container
\* of the result holds newValues[k] as a string under every key k, its other
\* keys keep their values and the rest of the document is unchanged; when it
\* leads to a non-object or null, the result has the content of the input.
C4_AsStated ==
  (uDone /\ Resolves) =>
    IF InTarget.v.t \in {"object", "array"} THEN TargetUpdated ELSE SameContent

\* C4, amended: the update is made when the path leads to an object that is
\* not an array.  When it leads to an array (no key of newValues being an
\* array index), to a non-object, to null or to a missing value, the result
\* has the content of the input.
C4_UpdateAtPath ==
  (uDone /\ Resolves) =>
    IF InTarget.v.t = "object" THEN TargetUpdated ELSE SameContent

\* the inner object of the nested document updated: one key overwritten, one
\* inserted, the text re-serialized
C4_Witness ==
  /\ uDone
  /\ uIn.json = StringifyCompact(DocNested)
  /\ uIn.path = <<SegS("a")>>
  /\ uIn.newValues = [keys |-> <<"b", "d">>, vals |-> <<"", "2">>]
  /\ OutDoc.ok
  /\ OutTarget.v = Obj(<<"a", "b", "d">>, <<Num(1), Str(""), Str("2")>>)

\* C5: on a text that is not valid JSON, updateJsonAtPath returns its input
\* text unchanged, and raises nothing to its caller.
C5_InvalidTextReturned ==
  (uDone /\ ~InDoc.ok) => (~uOut.threw /\ uOut.text = uIn.json)

\* the YAML text handed in with a path and new values, and returned
C5_Witness ==
  /\ uDone
  /\ uIn.json = TextYaml
  /\ uIn.path = <<SegS("a")>>
  /\ uIn.newValues # EmptyRec
  /\ uOut.text = TextYaml

\* the walk reaches null or a missing value before the path is exhausted
CannotIndex ==
  /\ InDoc.ok
  /\ \E n \in 0..(Len(uIn.path) - 1) :
       /\ ~Walk(InDoc.v, SubSeq(uIn.path, 1, n)).threw
       /\ Walk(InDoc.v, SubSeq(uIn.path, 1, n)).v.t \in {"null", "undefined"}

\* C7 as stated: when the walk cannot index a segment, the failure reaches
\* the caller of updateJsonAtPath instead of a returned text.
C7_AsStated == (uDone /\ CannotIndex) => uOut.threw

\* C7, amended: when the walk cannot index a segment, the failure is caught
\* inside updateJsonAtPath, which returns its input text unchanged; nothing
\* reaches the caller.
C7_WalkFailureCaught ==
  (uDone /\ CannotIndex) => (~uOut.threw /\ uOut.text = uIn.json)

\* a walk through a null value of the nested document
C7_Witness ==
  /\ uDone
  /\ uIn.json = StringifyCompact(DocNested)
  /\ uIn.path = <<SegS("c"), SegS("a")>>
  /\ uIn.newValues # EmptyRec
  /\ uOut.text = uIn.json

====
